---- MODULE Spec2Model ----
(***************************************************************************)
(* Concurrency core of echo-ai-assistant: StateService (state store, event *)
(* history ring, listener registry and fan-out), the SSE event stream      *)
(* handler that consumes it, SpeechService (bounded task queue with a      *)
(* single worker thread) and CameraService (one producer loop per source). *)
(* Spec is the event bus, SpecStore the state store, SpecBoot start-up,    *)
(* SpecDropFair disconnection, SpecFan the fan-out to two clients,         *)
(* SpecToggles the toggles, SpecSpeech, SpecFail, SpecDisk, SpecMain,      *)
(* SpecStop and SpecRace the speech queue, SpecCam and SpecNames the       *)
(* camera.                                                                 *)
(*                                                                         *)
(* Every thread is a program counter pc[t] plus a record of locals loc[t]. *)
(* StateService.update and StateService.record_event are subroutines: the  *)
(* caller stores its continuation in loc[t].ret and jumps to their first   *)
(* label.  One action is one atomic step of the Python code: a statement   *)
(* run under a lock, or one operation of a queue.Queue (which has its own  *)
(* mutex).                                                                 *)
(***************************************************************************)
EXTENDS Integers, Sequences, FiniteSets, TLC

VARIABLES
    state,      \* StateService._state
    file,       \* content of the state file at StateService._path
    history,    \* StateService._history, a deque(maxlen = HistorySize)
    listeners,  \* StateService._listeners, the registered listener queues
    lq,         \* content of each listener's queue.Queue
    lock,       \* owner of StateService._lock, or NoThread
    queue,      \* SpeechService._queue
    running,    \* SpeechService._running
    active,     \* SpeechService._active_task
    clock,      \* the value time.time() returns
    pc,         \* position of each thread
    loc,        \* locals of each thread
    nextSeq,    \* number of events appended to the history so far, plus one
    nextTask,   \* number of SpeechTask objects created so far, plus one
    ops,        \* number of producer calls started so far
    log,        \* every event ever appended to the history, in append order
    applied,    \* the patches assigned to self._state so far, in that order
    replayed,   \* per SSE client: seq of the events yielded from history()
    live,       \* per SSE client: seq of the events yielded from its queue
    regAt,      \* per SSE client: number of events appended before add_listener
    removedAt,  \* per listener: nextSeq when it was discarded for overflow, or 0
    accepted,   \* ids of the tasks put into the speech queue, in put order
    camRunning, \* CameraStream._running
    camThread,  \* CameraStream._thread: the loop thread started last, or NoThread
    capture,    \* CameraStream._capture: the loop that opened it, or NoCapture
    released,   \* the captures on which release() has been called
    lastFrame,  \* CameraStream._last_frame
    captured,   \* every frame read and encoded so far, in that order
    epoch       \* number of stop() calls that have returned

vars == << state, file, history, listeners, lq, lock, queue, running, active,
           clock, pc, loc, nextSeq, nextTask, ops, log, applied, replayed,
           live, regAt, removedAt, accepted, camRunning, camThread, capture,
           released, lastFrame, captured, epoch >>

storeVars == << state, file, history, listeners, lock, nextSeq, log, applied >>
speechVars == << queue, running, active, nextTask, accepted >>
clientVars == << replayed, live, regAt, removedAt >>
camVars == << camRunning, camThread, capture, released, lastFrame, captured, epoch >>

----------------------------------------------------------------------------
(* Bounds of the model *)

\* history_size of the StateService under test (the code's default is 100)
HistorySize == 2
\* max_size of a listener queue (the code's default is 32)
ListenerCap == 1
\* speech_queue_max of the SpeechService under test (the code's default is 16)
SpeechQueueMax == 2
\* number of update / record_event calls the producers of the event bus make
MaxOps == 3
\* number of update calls the producers of the state store make
MaxUpdates == 2
\* number of enqueue calls the requesters of a run make
MaxTasks == 3
MaxRace == 2
\* number of enqueue calls of a run in which synthesis may fail
MaxFail == 2
\* number of enqueue calls of a run that is shut down under fair scheduling
MaxHalt == 2
\* number of enqueue calls of a run that is polled with status()
MaxPolled == 2
\* number of loop threads the camera callers of a run can start
MaxLoops == 2
\* number of frames the camera of a run delivers
MaxFrames == 2
\* number of ensure_started / stop calls the camera callers of a run make
MaxCamOps == 3

----------------------------------------------------------------------------
(* Values *)

NoThread == "none"

EmptyMap == [k \in {} |-> TRUE]

\* dict.update: the keys of g overwrite or extend f
Merge(f, g) == [k \in (DOMAIN f) \cup (DOMAIN g) |-> IF k \in DOMAIN g THEN g[k] ELSE f[k]]

DEFAULT_STATE == [state |-> "idle", last_talk |-> 0, toggles |-> EmptyMap]

\* A JSON value found under the "toggles" key of a patch: a mapping, or not.
Dict(m) == [kind |-> "dict", map |-> m]
Null == [kind |-> "null", map |-> EmptyMap]
JsonList == [kind |-> "list", map |-> EmptyMap]
Scalar == [kind |-> "scalar", map |-> EmptyMap]

NoEvent == [type |-> "none", data |-> EmptyMap, ts |-> 0, seq |-> 0]

NoTask == [id |-> "", text |-> "", voice |-> "", created_at |-> 0]

\* SpeechTask(id="__quit__", text="", voice=None, ...), the sentinel of stop()
QuitTask(now) == [id |-> "__quit__", text |-> "", voice |-> "", created_at |-> now]

\* str(uuid.uuid4()): a fresh id for every task
TaskIds == << "t1", "t2", "t3", "t4", "t5", "t6", "t7", "t8" >>

NoLocals ==
    [ ret |-> "", res |-> "", patch |-> EmptyMap, new |-> DEFAULT_STATE,
      rv |-> DEFAULT_STATE, ev |-> NoEvent, todo |-> {}, dead |-> << >>,
      task |-> NoTask, over |-> {}, now |-> 0, pending |-> << >>,
      frame |-> [n |-> 0, epoch |-> 0] ]

----------------------------------------------------------------------------
(* StateService: pure parts *)

\* isinstance(toggles_patch, dict)
IsDict(v) == v.kind = "dict"

\* not state.get("last_talk"): 0.0 is falsy
Falsy(n) == n = 0

\* patch.pop("toggles", None)
PopToggles(patch) == IF "toggles" \in DOMAIN patch THEN patch["toggles"] ELSE Null

\* a patch that still holds its "toggles" key
WithoutToggles_Keep(patch) == patch

\* the patch once "toggles" has been popped from it
WithoutToggles(patch) == [k \in (DOMAIN patch) \ {"toggles"} |-> patch[k]]

\* toggles replaced by the patch's mapping instead of merged with it
MergeToggles_Replace(s, tp) == Merge(s, [toggles |-> tp.map])

\* state.setdefault("toggles", {}); state["toggles"].update(toggles_patch)
MergeToggles(s, tp) ==
    LET s1 == IF "toggles" \in DOMAIN s THEN s ELSE Merge(s, [toggles |-> EmptyMap])
    IN  [s1 EXCEPT !["toggles"] = Merge(@, tp.map)]

\* a stamp that overwrites the last_talk of every talking state
StampTalk_Always(s, now) ==
    IF s["state"] = "talking" THEN [s EXCEPT !["last_talk"] = now] ELSE s

\* if state.get("state") == "talking" and not state.get("last_talk"): stamp it
StampTalk(s, now) ==
    IF s["state"] = "talking" /\ Falsy(s["last_talk"])
    THEN [s EXCEPT !["last_talk"] = now]
    ELSE s

\* The body of update between the deepcopy of self._state and its assignment
ApplyPatch(s, patch, now) ==
    LET toggles_patch == PopToggles(patch)
        s1 == Merge(s, WithoutToggles(patch))
        s2 == IF IsDict(toggles_patch) THEN MergeToggles(s1, toggles_patch) ELSE s1
    IN  StampTalk(s2, now)

\* a ring that rejects the new element once it is full
DequeAppend_KeepOldest(h, e, n) ==
    IF Len(h) < n THEN Append(h, e) ELSE h

\* the state after the first k assigned patches, applied one after the other
RECURSIVE StateAfter(_)
StateAfter(k) ==
    IF k = 0 THEN DEFAULT_STATE
    ELSE ApplyPatch(StateAfter(k - 1), applied[k].patch, applied[k].now)

\* deque(maxlen = n).append(e): a full deque drops its oldest element
DequeAppend(h, e, n) ==
    IF n = 0 THEN << >>
    ELSE IF Len(h) < n THEN Append(h, e) ELSE Append(Tail(h), e)

\* Queue(maxsize = n).full(); maxsize <= 0 means unbounded
\* a queue that never reports being full
QueueFull_Never(q, n) == FALSE

QueueFull(q, n) == n > 0 /\ Len(q) >= n

\* a write that leaves the default state in the file
JsonFile_Default(s) == [kind |-> "json", content |-> DEFAULT_STATE]

\* json.dumps(self._state) written to the file
JsonFile(s) == [kind |-> "json", content |-> s]

\* a write that failed after the file was truncated
PartialFile(s) == [kind |-> "partial", content |-> s]

Seqs(q) == [i \in 1..Len(q) |-> q[i].seq]

Range(q) == {q[i] : i \in 1..Len(q)}

----------------------------------------------------------------------------
(* Thread helpers *)

Goto(t, label) == pc' = [pc EXCEPT ![t] = label]

\* a lock that never makes a thread wait
CanLock_Always(t) == TRUE

\* a threading.Lock: its owner waits for it like everybody else
CanLock_Plain(t) == lock = NoThread

\* with self._lock: the RLock is free, or this thread already owns it
CanLock(t) == lock = NoThread \/ lock = t

\* the labels of update, record_event and _broadcast
StoreLabels ==
    { "upd_lock", "upd_assign", "upd_bcast",
      "rec_append", "rec_copy", "rec_bcast" }

\* no update or record_event call is in progress
Quiescent == \A t \in DOMAIN pc : pc[t] \notin StoreLabels

----------------------------------------------------------------------------
(* StateService.snapshot *)

Snapshot(t) ==
    /\ pc[t] = "idle"
    /\ CanLock(t)
    /\ loc' = [loc EXCEPT ![t].rv = state, ![t].res = "snapshot"]
    /\ UNCHANGED << pc, storeVars, lq, speechVars, clientVars, clock, camVars, ops >>

----------------------------------------------------------------------------
(* StateService.update(patch); the caller has set loc[t].patch and .ret *)

\* with self._lock: state = deepcopy(self._state); the patch is merged into
\* the copy and last_talk stamped with time.time()
UpdBegin(t) ==
    /\ pc[t] = "upd_lock"
    /\ CanLock(t)
    /\ lock' = t
    /\ loc' = [loc EXCEPT ![t].new = ApplyPatch(state, loc[t].patch, clock),
                          ![t].now = clock]
    /\ Goto(t, "upd_assign")
    /\ UNCHANGED << state, file, history, listeners, nextSeq, log, applied,
                    lq, speechVars, clientVars, clock, camVars, ops >>

\* what update leaves in its locals when it returns deepcopy(self._state)
Returned(l, s) ==
    [l EXCEPT !.rv = s, !.res = "ok", !.patch = EmptyMap, !.new = DEFAULT_STATE,
              !.ev = NoEvent, !.now = 0, !.todo = {}]

\* self._state = state; self._persist(); event = {...};
\* self._history.append(event); then the first statement of _broadcast,
\* list(self._listeners), all under the lock.  With no listener registered
\* _broadcast has nothing to do and update returns deepcopy(self._state),
\* which releases the lock.
UpdCommit(t) ==
    /\ pc[t] = "upd_assign"
    /\ state' = loc[t].new
    /\ applied' = Append(applied, [patch |-> loc[t].patch, now |-> loc[t].now])
    /\ file' = JsonFile(loc[t].new)
    /\ LET event == [type |-> "state", data |-> loc[t].new, ts |-> clock,
                     seq |-> nextSeq]
       IN  /\ history' = DequeAppend(history, event, HistorySize)
           /\ log' = Append(log, event)
           /\ IF listeners = {}
              THEN /\ loc' = [loc EXCEPT ![t] = Returned(@, loc[t].new)]
                   /\ lock' = NoThread
                   /\ Goto(t, loc[t].ret)
              ELSE /\ loc' = [loc EXCEPT ![t].ev = event, ![t].todo = listeners,
                                         ![t].dead = << >>]
                   /\ lock' = lock
                   /\ Goto(t, "upd_bcast")
    /\ nextSeq' = nextSeq + 1
    /\ UNCHANGED << listeners, lq, speechVars, clientVars, clock, camVars, ops >>

\* self._state = state; self._persist() raises OSError: nothing catches it,
\* the with block releases the lock and update raises to its caller
UpdCommitFail(t) ==
    /\ pc[t] = "upd_assign"
    /\ state' = loc[t].new
    /\ applied' = Append(applied, [patch |-> loc[t].patch, now |-> loc[t].now])
    /\ \E f \in {file, PartialFile(loc[t].new)} : file' = f
    /\ lock' = NoThread
    /\ loc' = [loc EXCEPT ![t].res = "OSError", ![t].patch = EmptyMap,
                          ![t].new = DEFAULT_STATE, ![t].now = 0]
    /\ Goto(t, loc[t].ret)
    /\ UNCHANGED << history, listeners, nextSeq, log,
                    lq, speechVars, clientVars, clock, camVars, ops >>

\* _broadcast is done: return deepcopy(self._state); leaving the with block
\* releases the lock
UpdReturn(t) ==
    /\ pc[t] = "upd_bcast"
    /\ loc[t].todo = {}
    /\ loc[t].dead = << >>
    /\ lock' = NoThread
    /\ loc' = [loc EXCEPT ![t] = Returned(@, state)]
    /\ Goto(t, loc[t].ret)
    /\ UNCHANGED << state, file, history, listeners, nextSeq, log, applied,
                    lq, speechVars, clientVars, clock, camVars, ops >>

----------------------------------------------------------------------------
(* StateService.record_event; the caller has set loc[t].ev and .ret *)

\* event = {"type": ..., "data": ..., "ts": ...};
\* with self._lock: self._history.append(event)
\* The lock is taken, the append made and the lock released in one step;
\* ret is where the caller continues when record_event returns.
HistoryAppend(t, ev, ret) ==
    /\ CanLock(t)
    /\ LET event == [ev EXCEPT !.seq = nextSeq]
       IN  /\ history' = DequeAppend(history, event, HistorySize)
           /\ log' = Append(log, event)
           /\ loc' = [loc EXCEPT ![t].ev = event, ![t].ret = ret, ![t].res = ""]
    /\ nextSeq' = nextSeq + 1
    /\ Goto(t, "rec_copy")
    /\ UNCHANGED << state, file, listeners, lock, applied, lq, clientVars, clock, camVars >>

\* a record_event that appends its payload as a `state` event
RecAppend_AsState(t) ==
    /\ pc[t] = "rec_append"
    /\ HistoryAppend(t, [loc[t].ev EXCEPT !.type = "state"], loc[t].ret)
    /\ UNCHANGED << speechVars, ops >>

\* record_event called by a thread that has just done something else
RecAppend(t) ==
    /\ pc[t] = "rec_append"
    /\ HistoryAppend(t, loc[t].ev, loc[t].ret)
    /\ UNCHANGED << speechVars, ops >>

\* _broadcast, called with the lock released: list(self._listeners).  With
\* no listener registered it has nothing to do and record_event returns.
RecCopy(t) ==
    /\ pc[t] = "rec_copy"
    /\ IF listeners = {}
       THEN /\ loc' = [loc EXCEPT ![t].res = "ok", ![t].ev = NoEvent]
            /\ Goto(t, loc[t].ret)
       ELSE /\ loc' = [loc EXCEPT ![t].todo = listeners, ![t].dead = << >>]
            /\ Goto(t, "rec_bcast")
    /\ UNCHANGED << storeVars, lq, speechVars, clientVars, clock, camVars, ops >>

\* _broadcast is done: record_event returns None
RecReturn(t) ==
    /\ pc[t] = "rec_bcast"
    /\ loc[t].todo = {}
    /\ loc[t].dead = << >>
    /\ loc' = [loc EXCEPT ![t].res = "ok", ![t].ev = NoEvent]
    /\ Goto(t, loc[t].ret)
    /\ UNCHANGED << storeVars, lq, speechVars, clientVars, clock, camVars, ops >>

----------------------------------------------------------------------------
(* StateService._broadcast and remove_listener *)

\* a put that loses the event
PutNowait_Drop(q, e) == q

\* listener.put_nowait(event) on a queue with room
PutNowait(q, e) == Append(q, e)

InBroadcast(t) == pc[t] \in {"upd_bcast", "rec_bcast"}

\* for listener in list(self._listeners): put_nowait, or dead.append on Full
BcastPut(t) ==
    /\ InBroadcast(t)
    /\ \E l \in loc[t].todo :
        IF QueueFull(lq[l], ListenerCap)
        THEN /\ loc' = [loc EXCEPT ![t].todo = @ \ {l}, ![t].dead = Append(@, l),
                                   ![t].over = @ \cup {l}]
             /\ lq' = lq
        ELSE /\ lq' = [lq EXCEPT ![l] = PutNowait(@, loc[t].ev)]
             /\ loc' = [loc EXCEPT ![t].todo = @ \ {l}]
    /\ UNCHANGED << pc, storeVars, speechVars, clientVars, clock, camVars, ops >>

\* a discard that leaves the listener registered
Discard_Keep(s, l) == s

\* a discard that empties the registry
Discard_All(s, l) == {}

\* self._listeners.discard(queue)
Discard(s, l) == s \ {l}

\* for listener in dead: self.remove_listener(listener)
BcastReap(t) ==
    /\ InBroadcast(t)
    /\ loc[t].todo = {}
    /\ loc[t].dead # << >>
    /\ CanLock(t)
    /\ listeners' = Discard(listeners, Head(loc[t].dead))
    /\ removedAt' = [removedAt EXCEPT ![Head(loc[t].dead)] = IF @ = 0 THEN nextSeq ELSE @]
    /\ loc' = [loc EXCEPT ![t].dead = Tail(@)]
    /\ UNCHANGED << pc, state, file, history, lock, nextSeq, log, applied,
                    lq, speechVars, replayed, live, regAt, clock, camVars, ops >>

----------------------------------------------------------------------------
(* StateService.__init__ and _load *)

\* what can be at self._path when the process starts: no file, a JSON
\* object, a JSON document that is not an object, text that is not JSON,
\* the rest of a write that failed, bytes that are not UTF-8
StartFiles ==
    { [kind |-> "missing", content |-> DEFAULT_STATE],
      JsonFile(DEFAULT_STATE),
      JsonFile([state |-> "talking", last_talk |-> 5, toggles |-> [a |-> TRUE]]),
      [kind |-> "list", content |-> DEFAULT_STATE],
      [kind |-> "text", content |-> DEFAULT_STATE],
      PartialFile(DEFAULT_STATE),
      [kind |-> "bytes", content |-> DEFAULT_STATE] }

\* _load, run on self._state = DEFAULT_STATE.copy(): a missing file is
\* written with the default; read_text raises UnicodeDecodeError, which
\* nothing catches, on bytes that are not UTF-8; a JSON object is merged
\* over the default; another JSON document is ignored; JSONDecodeError
\* writes the default
Load(f) ==
    CASE f.kind = "missing" ->
           [state |-> DEFAULT_STATE, file |-> JsonFile(DEFAULT_STATE), res |-> "ok"]
      [] f.kind = "bytes" ->
           [state |-> DEFAULT_STATE, file |-> f, res |-> "UnicodeDecodeError"]
      [] f.kind = "json" ->
           [state |-> Merge(DEFAULT_STATE, f.content), file |-> f, res |-> "ok"]
      [] f.kind = "list" ->
           [state |-> DEFAULT_STATE, file |-> f, res |-> "ok"]
      [] OTHER ->
           [state |-> DEFAULT_STATE, file |-> JsonFile(DEFAULT_STATE), res |-> "ok"]

\* the process starts, or starts again when no call is in progress:
\* StateService(path) builds an empty instance and loads the file
Construct(t) ==
    /\ pc[t] \in {"boot", "idle"}
    /\ state' = Load(file).state
    /\ file' = Load(file).file
    /\ history' = << >>
    /\ listeners' = {}
    /\ lock' = NoThread
    /\ nextSeq' = 1
    /\ log' = << >>
    /\ applied' = << >>
    /\ loc' = [loc EXCEPT ![t] = [NoLocals EXCEPT !.res = Load(file).res]]
    /\ Goto(t, IF Load(file).res = "ok" THEN "idle" ELSE "crashed")
    /\ UNCHANGED << lq, speechVars, clientVars, clock, camVars, ops >>

----------------------------------------------------------------------------
(* Callers of the StateService: request threads of the HTTP layer *)

Producers == {"p1", "p2"}
Readers == {"r1"}
Clients == {"c1"}

\* POST /api/state with a JSON object: state_service.update(payload)
CallUpdate(t, patch, max) ==
    /\ pc[t] = "idle"
    /\ ops < max
    /\ ops' = ops + 1
    /\ loc' = [loc EXCEPT ![t].patch = patch, ![t].ret = "idle", ![t].res = "",
                          ![t].rv = DEFAULT_STATE, ![t].over = {}]
    /\ Goto(t, "upd_lock")
    /\ UNCHANGED << storeVars, lq, speechVars, clientVars, clock, camVars >>

\* state_service.record_event(event_type, payload): the event is built
\* before the lock is taken
CallRecord(t, type, payload) ==
    /\ pc[t] = "idle"
    /\ ops < MaxOps
    /\ ops' = ops + 1
    /\ loc' = [loc EXCEPT ![t].ev = [type |-> type, data |-> payload,
                                     ts |-> clock, seq |-> 0],
                          ![t].ret = "idle", ![t].res = "", ![t].over = {}]
    /\ Goto(t, "rec_append")
    /\ UNCHANGED << storeVars, lq, speechVars, clientVars, clock, camVars >>

----------------------------------------------------------------------------
(* stream.events: the SSE handler of one client *)

\* listener = state_service.add_listener(); the Response is returned with
\* the generator not yet started
ClientSubscribe(c) ==
    /\ pc[c] = "c_init"
    /\ CanLock(c)
    /\ listeners' = listeners \cup {c}
    /\ regAt' = [regAt EXCEPT ![c] = nextSeq - 1]
    /\ Goto(c, "c_replay")
    /\ UNCHANGED << state, file, history, lock, nextSeq, log, applied,
                    lq, loc, speechVars, replayed, live, removedAt, clock, camVars, ops >>

\* for event in state_service.history(): yield _format_sse(event)
ClientReplay(c) ==
    /\ pc[c] = "c_replay"
    /\ CanLock(c)
    /\ replayed' = [replayed EXCEPT ![c] = Seqs(history)]
    /\ Goto(c, "c_live")
    /\ UNCHANGED << storeVars, lq, loc, speechVars, live, regAt, removedAt, clock, camVars, ops >>

\* event = listener.get(); yield _format_sse(event): blocks while empty
ClientGet(c) ==
    /\ pc[c] = "c_live"
    /\ lq[c] # << >>
    /\ live' = [live EXCEPT ![c] = Append(@, Head(lq[c]).seq)]
    /\ lq' = [lq EXCEPT ![c] = Tail(@)]
    /\ UNCHANGED << pc, storeVars, loc, speechVars, replayed, regAt, removedAt,
                    clock, camVars, ops >>

\* the client goes away.  Before the first next() of the generator nothing
\* of its body has run, and closing it runs nothing; later the handler is
\* inside listener.get() or at a yield and notices at its next yield
ClientDisconnect(c) ==
    /\ pc[c] \in {"c_replay", "c_live"}
    /\ Goto(c, IF pc[c] = "c_replay" THEN "c_lost" ELSE "c_gone")
    /\ UNCHANGED << storeVars, lq, loc, speechVars, clientVars, clock, camVars, ops >>

\* event = listener.get() returns for a client that is gone; the yield
\* raises GeneratorExit
ClientWake(c) ==
    /\ pc[c] = "c_gone"
    /\ lq[c] # << >>
    /\ lq' = [lq EXCEPT ![c] = Tail(@)]
    /\ Goto(c, "c_finally")
    /\ UNCHANGED << storeVars, loc, speechVars, clientVars, clock, camVars, ops >>

\* finally: state_service.remove_listener(listener)
ClientFinally(c) ==
    /\ pc[c] = "c_finally"
    /\ CanLock(c)
    /\ listeners' = Discard(listeners, c)
    /\ Goto(c, "c_closed")
    /\ UNCHANGED << state, file, history, lock, nextSeq, log, applied,
                    lq, loc, speechVars, clientVars, clock, camVars, ops >>

----------------------------------------------------------------------------
(* SpeechService *)

Requesters == {"e1", "e2"}
Worker == "w"
Stopper == "s"

\* the texts a requester may send: one that speaks, one that is blank
Texts == {" a ", "  "}

\* a strip that returns its argument
Strip_Keep(text) == text

\* str.strip()
Strip(text) ==
    CASE text = " a " -> "a"
      [] text = "  " -> ""
      [] OTHER -> text

SpeechEvent(task, status) ==
    [type |-> "speech",
     data |-> [id |-> task.id, status |-> status, text |-> task.text],
     ts |-> clock, seq |-> 0]

\* a "failed" event that says nothing about the error
FailedEvent_NoError(task, error) ==
    [type |-> "speech",
     data |-> [id |-> task.id, status |-> "failed", text |-> task.text],
     ts |-> clock, seq |-> 0]

\* the "failed" event also carries str(exc)
FailedEvent(task, error) ==
    [type |-> "speech",
     data |-> [id |-> task.id, status |-> "failed", error |-> error, text |-> task.text],
     ts |-> clock, seq |-> 0]

\* a get that takes the newest element instead of the oldest
GetIndex_Newest(q) == Len(q)

\* queue.Queue.get takes the element at the head of the deque
GetIndex(q) == 1

\* a get that empties the queue
RemoveAt_All(q, i) == << >>

\* the deque once the element at index i has been taken
RemoveAt(q, i) == [j \in 1..(Len(q) - 1) |-> IF j < i THEN q[j] ELSE q[j + 1]]

\* _pending_snapshot: the queued tasks without the sentinel, in queue order
PendingSnapshot(q) == SelectSeq(q, LAMBDA task : task.id # "__quit__")

\* SpeechTask(id=str(uuid.uuid4()), text=text.strip(), voice=voice, ...)
NewTask(text) ==
    [id |-> TaskIds[nextTask], text |-> Strip(text), voice |-> "", created_at |-> clock]

\* enqueue: blank text raises ValueError; self._queue.put_nowait(task), where
\* queue.Full becomes RuntimeError; otherwise
\* record_event("speech", {... "status": "queued" ...}) is called next
Enqueue(t, text, max) ==
    /\ pc[t] = "idle"
    /\ IF Strip(text) = ""
       THEN /\ loc' = [loc EXCEPT ![t].res = "ValueError"]
            /\ UNCHANGED << pc, nextTask, queue, accepted >>
       ELSE /\ nextTask <= max
            /\ nextTask' = nextTask + 1
            /\ IF QueueFull(queue, SpeechQueueMax)
               THEN /\ loc' = [loc EXCEPT ![t].res = "RuntimeError"]
                    /\ UNCHANGED << pc, queue, accepted >>
               ELSE /\ queue' = Append(queue, NewTask(text))
                    /\ accepted' = Append(accepted, NewTask(text).id)
                    /\ loc' = [loc EXCEPT ![t].ev = SpeechEvent(NewTask(text), "queued"),
                                          ![t].ret = "idle", ![t].res = ""]
                    /\ Goto(t, "rec_append")
    /\ UNCHANGED << storeVars, lq, running, active, clientVars, clock, camVars, ops >>

\* a loop that goes on whatever the flag says: while True
WorkerCheck_Always ==
    /\ pc[Worker] = "w_check"
    /\ Goto(Worker, "w_get")
    /\ UNCHANGED << storeVars, lq, speechVars, loc, clientVars, clock, camVars, ops >>

\* _worker_loop: while self._running.is_set()
WorkerCheck ==
    /\ pc[Worker] = "w_check"
    /\ Goto(Worker, IF running THEN "w_get" ELSE "w_exit")
    /\ UNCHANGED << storeVars, lq, speechVars, loc, clientVars, clock, camVars, ops >>

\* task = self._queue.get(timeout=0.5); the sentinel breaks the loop
WorkerGet ==
    /\ pc[Worker] = "w_get"
    /\ queue # << >>
    /\ LET i == GetIndex(queue)
           task == queue[i]
       IN  /\ queue' = RemoveAt(queue, i)
           /\ IF task.id = "__quit__"
              THEN /\ Goto(Worker, "w_exit")
                   /\ loc' = loc
              ELSE /\ Goto(Worker, "w_active")
                   /\ loc' = [loc EXCEPT ![Worker].task = task]
    /\ UNCHANGED << storeVars, lq, running, active, nextTask, accepted, clientVars,
                    clock, camVars, ops >>

\* except queue.Empty: continue
WorkerTimeout ==
    /\ pc[Worker] = "w_get"
    /\ queue = << >>
    /\ Goto(Worker, "w_check")
    /\ UNCHANGED << storeVars, lq, speechVars, loc, clientVars, clock, camVars, ops >>

\* self._active_task = task; _handle_task calls
\* update({"state": "talking", "last_talk": time.time()})
WorkerActivate ==
    /\ pc[Worker] = "w_active"
    /\ active' = loc[Worker].task
    /\ loc' = [loc EXCEPT ![Worker].patch = [state |-> "talking", last_talk |-> clock],
                          ![Worker].ret = "w_started", ![Worker].res = ""]
    /\ Goto(Worker, "upd_lock")
    /\ UNCHANGED << storeVars, lq, queue, running, nextTask, accepted, clientVars,
                    clock, camVars, ops >>

\* an exception of update leaves _handle_task and _worker_loop and the
\* thread dies
WorkerDies ==
    /\ pc[Worker] \in {"w_started", "w_clear"}
    /\ loc[Worker].res = "OSError"
    /\ Goto(Worker, "w_dead")
    /\ UNCHANGED << storeVars, lq, speechVars, loc, clientVars, clock, camVars, ops >>

\* try: record_event("speech", {... "status": "started" ...})
WorkerStarted ==
    /\ pc[Worker] = "w_started"
    /\ loc[Worker].res # "OSError"
    /\ HistoryAppend(Worker, SpeechEvent(loc[Worker].task, "started"), "w_synth")
    /\ UNCHANGED << speechVars, ops >>

\* _synthesise_to_file and _play_audio return:
\* record_event("speech", {... "status": "completed" ...})
WorkerSpoke ==
    /\ pc[Worker] = "w_synth"
    /\ HistoryAppend(Worker, SpeechEvent(loc[Worker].task, "completed"), "w_final")
    /\ UNCHANGED << speechVars, ops >>

\* an except branch that logs the exception and records nothing
WorkerFailed_Unrecorded ==
    /\ pc[Worker] = "w_synth"
    /\ Goto(Worker, "w_final")
    /\ UNCHANGED << storeVars, lq, speechVars, loc, clientVars, clock, camVars, ops >>

\* _synthesise_to_file or _play_audio raises:
\* record_event("speech", {... "status": "failed", "error": str(exc) ...})
WorkerFailed ==
    /\ pc[Worker] = "w_synth"
    /\ HistoryAppend(Worker, FailedEvent(loc[Worker].task, "exc"), "w_final")
    /\ UNCHANGED << speechVars, ops >>

\* a finally block that sets "talking" without looking at the queue
WorkerFinal_Talking ==
    /\ pc[Worker] = "w_final"
    /\ loc' = [loc EXCEPT ![Worker].patch = [state |-> "talking"],
                          ![Worker].ret = "w_clear", ![Worker].res = ""]
    /\ Goto(Worker, "upd_lock")
    /\ UNCHANGED << storeVars, lq, speechVars, clientVars, clock, camVars, ops >>

\* a finally block that sets "idle" without looking at the queue
WorkerFinal_Idle ==
    /\ pc[Worker] = "w_final"
    /\ loc' = [loc EXCEPT ![Worker].patch = [state |-> "idle", last_talk |-> clock],
                          ![Worker].ret = "w_clear", ![Worker].res = ""]
    /\ Goto(Worker, "upd_lock")
    /\ UNCHANGED << storeVars, lq, speechVars, clientVars, clock, camVars, ops >>

\* finally: "talking" if _pending_snapshot() is not empty, else "idle"
WorkerFinal ==
    /\ pc[Worker] = "w_final"
    /\ loc' = [loc EXCEPT ![Worker].patch =
                              IF PendingSnapshot(queue) # << >>
                              THEN [state |-> "talking"]
                              ELSE [state |-> "idle", last_talk |-> clock],
                          ![Worker].ret = "w_clear", ![Worker].res = ""]
    /\ Goto(Worker, "upd_lock")
    /\ UNCHANGED << storeVars, lq, speechVars, clientVars, clock, camVars, ops >>

\* self._active_task = None; self._queue.task_done()
WorkerClear ==
    /\ pc[Worker] = "w_clear"
    /\ loc[Worker].res # "OSError"
    /\ active' = NoTask
    /\ loc' = [loc EXCEPT ![Worker] = NoLocals]
    /\ Goto(Worker, "w_check")
    /\ UNCHANGED << storeVars, lq, queue, running, nextTask, accepted, clientVars,
                    clock, camVars, ops >>

\* stop: self._running.clear()
StopClear ==
    /\ pc[Stopper] = "idle"
    /\ running' = FALSE
    /\ Goto(Stopper, "stop_put")
    /\ UNCHANGED << storeVars, lq, queue, active, nextTask, accepted, loc, clientVars,
                    clock, camVars, ops >>

\* self._queue.put_nowait(SpeechTask(id="__quit__", ...)); queue.Full: pass;
\* then self._worker.join(timeout=1.0), which changes nothing and returns
\* when the worker has ended or after the timeout
StopPut ==
    /\ pc[Stopper] = "stop_put"
    /\ queue' = IF QueueFull(queue, SpeechQueueMax) THEN queue
                ELSE Append(queue, QuitTask(clock))
    /\ Goto(Stopper, "stopped")
    /\ UNCHANGED << storeVars, lq, running, active, nextTask, accepted, loc,
                    clientVars, clock, camVars, ops >>

\* the thread that polls status()
Poller == "q1"

\* status: "active": self._task_info(self._active_task, "active")
StatusActive ==
    /\ pc[Poller] = "idle"
    /\ loc' = [loc EXCEPT ![Poller].task = active, ![Poller].pending = << >>,
                          ![Poller].res = ""]
    /\ Goto(Poller, "st_pending")
    /\ UNCHANGED << storeVars, lq, speechVars, clientVars, clock, camVars, ops >>

\* a status that empties the queue to look at it
StatusPending_Drain ==
    /\ pc[Poller] = "st_pending"
    /\ loc' = [loc EXCEPT ![Poller].pending = PendingSnapshot(queue),
                          ![Poller].res = "status"]
    /\ queue' = << >>
    /\ Goto(Poller, "idle")
    /\ UNCHANGED << storeVars, lq, running, active, nextTask, accepted, clientVars,
                    clock, camVars, ops >>

\* status: "pending": [... for task in self._pending_snapshot()], where
\* list(self._queue.queue) copies the deque and leaves it as it is
StatusPending ==
    /\ pc[Poller] = "st_pending"
    /\ loc' = [loc EXCEPT ![Poller].pending = PendingSnapshot(queue),
                          ![Poller].res = "status"]
    /\ Goto(Poller, "idle")
    /\ UNCHANGED << storeVars, lq, speechVars, clientVars, clock, camVars, ops >>

----------------------------------------------------------------------------
(* CameraStream of one registered source, and the CameraService calls that *)
(* reach it                                                                *)

\* self._capture = None
NoCapture == "none"

\* self._last_frame = None
NoFrame == [n |-> 0, epoch |-> 0]

\* the threads that call ensure_started, stop and frame
CamCallers == {"k1", "k2"}

\* the threads start() can create, each running _loop once
LoopNames == << "l1", "l2", "l3", "l4" >>
Loops == { LoopNames[i] : i \in 1..MaxLoops }

\* threading.Thread.is_alive()
IsAlive(l) == l # NoThread /\ pc[l] \notin {"l_unborn", "l_done", "l_dead"}

\* the loop threads not yet created
Unborn == { l \in Loops : pc[l] = "l_unborn" }

InitCamera ==
    /\ camRunning = FALSE
    /\ camThread = NoThread
    /\ capture = NoCapture
    /\ released = {}
    /\ lastFrame = NoFrame
    /\ captured = << >>
    /\ epoch = 0

\* ensure_started: stream.start(): if self._running.is_set(): return
CamStartCheck(t) ==
    /\ pc[t] = "idle"
    /\ ops < MaxCamOps
    /\ Cardinality(Unborn) >
          Cardinality({ k \in CamCallers : pc[k] \in {"cs_set", "cs_spawn"} })
    /\ ops' = ops + 1
    /\ IF camRunning
       THEN /\ loc' = [loc EXCEPT ![t].res = "running"]
            /\ pc' = pc
       ELSE /\ loc' = [loc EXCEPT ![t].res = ""]
            /\ Goto(t, "cs_set")
    /\ UNCHANGED << storeVars, lq, speechVars, clientVars, clock, camVars >>

\* self._running.set()
CamStartSet(t) ==
    /\ pc[t] = "cs_set"
    /\ camRunning' = TRUE
    /\ Goto(t, "cs_spawn")
    /\ UNCHANGED << storeVars, lq, speechVars, clientVars, clock, ops, loc,
                    camThread, capture, released, lastFrame, captured, epoch >>

\* self._thread = threading.Thread(target=self._loop, daemon=True);
\* self._thread.start()
CamStartSpawn(t) ==
    /\ pc[t] = "cs_spawn"
    /\ LET l == CHOOSE l \in Unborn : \A m \in Unborn : pc[m] = pc[l]
       IN  /\ camThread' = l
           /\ pc' = [pc EXCEPT ![t] = "idle", ![l] = "l_open"]
    /\ loc' = [loc EXCEPT ![t].res = "started"]
    /\ UNCHANGED << storeVars, lq, speechVars, clientVars, clock, ops,
                    camRunning, capture, released, lastFrame, captured, epoch >>

\* stop: self._running.clear()
CamStopClear(t) ==
    /\ pc[t] = "idle"
    /\ ops < MaxCamOps
    /\ ops' = ops + 1
    /\ camRunning' = FALSE
    /\ loc' = [loc EXCEPT ![t].res = ""]
    /\ Goto(t, "cp_join")
    /\ UNCHANGED << storeVars, lq, speechVars, clientVars, clock,
                    camThread, capture, released, lastFrame, captured, epoch >>

\* if self._thread and self._thread.is_alive(): self._thread.join(timeout=0.5)
\* join returns when the thread has ended or when the timeout has passed
CamStopJoin(t) ==
    /\ pc[t] = "cp_join"
    /\ loc' = [loc EXCEPT ![t].res = IF IsAlive(camThread) THEN "timeout" ELSE "joined"]
    /\ Goto(t, "cp_release")
    /\ UNCHANGED << storeVars, lq, speechVars, clientVars, clock, ops, camVars >>

\* if self._capture: try: self._capture.release() except Exception: pass
CamStopRelease(t) ==
    /\ pc[t] = "cp_release"
    /\ IF capture = NoCapture
       THEN /\ epoch' = epoch + 1
            /\ loc' = [loc EXCEPT ![t].res = "stopped"]
            /\ Goto(t, "idle")
            /\ released' = released
       ELSE /\ released' = released \cup {capture}
            /\ Goto(t, "cp_clear")
            /\ UNCHANGED << epoch, loc >>
    /\ UNCHANGED << storeVars, lq, speechVars, clientVars, clock, ops,
                    camRunning, camThread, capture, lastFrame, captured >>

\* self._capture = None, and stop returns
CamStopClearCapture(t) ==
    /\ pc[t] = "cp_clear"
    /\ capture' = NoCapture
    /\ epoch' = epoch + 1
    /\ loc' = [loc EXCEPT ![t].res = "stopped"]
    /\ Goto(t, "idle")
    /\ UNCHANGED << storeVars, lq, speechVars, clientVars, clock, ops,
                    camRunning, camThread, released, lastFrame, captured >>

\* frame: with self._lock: return self._last_frame
\* (the caller notes how many stop() calls had returned when it asked)
CamFrame(t) ==
    /\ pc[t] = "idle"
    /\ loc' = [loc EXCEPT ![t].frame = lastFrame, ![t].res = "frame",
                          ![t].now = epoch]
    /\ UNCHANGED << storeVars, lq, speechVars, clientVars, clock, ops, pc, camVars >>

\* _loop: self._capture = cv2.VideoCapture(self.config.device)
LoopOpen(l) ==
    /\ pc[l] = "l_open"
    /\ capture' = l
    /\ Goto(l, "l_config")
    /\ UNCHANGED << storeVars, lq, speechVars, clientVars, clock, ops, loc,
                    camRunning, camThread, released, lastFrame, captured, epoch >>

\* self._capture.set(...): AttributeError ends the thread when stop() has
\* put None into self._capture in between
LoopConfigure(l) ==
    /\ pc[l] = "l_config"
    /\ Goto(l, IF capture = NoCapture THEN "l_dead" ELSE "l_check")
    /\ UNCHANGED << storeVars, lq, speechVars, clientVars, clock, ops, loc, camVars >>

\* while self._running.is_set()
LoopCheck(l) ==
    /\ pc[l] = "l_check"
    /\ Goto(l, IF camRunning THEN "l_read" ELSE "l_release")
    /\ UNCHANGED << storeVars, lq, speechVars, clientVars, clock, ops, loc, camVars >>

\* ok, frame = self._capture.read() and cv2.imencode succeed: the encoded
\* frame is in the local buffer
LoopRead(l) ==
    /\ pc[l] = "l_read"
    /\ capture # NoCapture
    /\ capture \notin released
    /\ Len(captured) < MaxFrames
    /\ LET f == [n |-> Len(captured) + 1, epoch |-> epoch]
       IN  /\ captured' = Append(captured, f)
           /\ loc' = [loc EXCEPT ![l].frame = f]
    /\ Goto(l, "l_store")
    /\ UNCHANGED << storeVars, lq, speechVars, clientVars, clock, ops,
                    camRunning, camThread, capture, released, lastFrame, epoch >>

\* read() returns not ok (always so on a released capture), or imencode
\* fails or raises: nothing is stored, and after the sleep the loop goes on;
\* with None in self._capture the AttributeError ends the thread
LoopReadFails(l) ==
    /\ pc[l] = "l_read"
    /\ Goto(l, IF capture = NoCapture THEN "l_dead" ELSE "l_check")
    /\ UNCHANGED << storeVars, lq, speechVars, clientVars, clock, ops, loc, camVars >>

\* if ok and buffer is not None: with self._lock:
\* self._last_frame = buffer.tobytes(); then time.sleep(interval)
StoreFrame(l) ==
    /\ pc[l] = "l_store"
    /\ lastFrame' = loc[l].frame
    /\ Goto(l, "l_check")
    /\ UNCHANGED << storeVars, lq, speechVars, clientVars, clock, ops, loc,
                    camRunning, camThread, capture, released, captured, epoch >>

\* after the loop: if self._capture: try: self._capture.release()
LoopRelease(l) ==
    /\ pc[l] = "l_release"
    /\ IF capture = NoCapture
       THEN /\ Goto(l, "l_done")
            /\ released' = released
       ELSE /\ released' = released \cup {capture}
            /\ Goto(l, "l_clear")
    /\ UNCHANGED << storeVars, lq, speechVars, clientVars, clock, ops, loc,
                    camRunning, camThread, capture, lastFrame, captured, epoch >>

\* self._capture = None, and the thread ends
LoopClearCapture(l) ==
    /\ pc[l] = "l_clear"
    /\ capture' = NoCapture
    /\ Goto(l, "l_done")
    /\ UNCHANGED << storeVars, lq, speechVars, clientVars, clock, ops, loc,
                    camRunning, camThread, released, lastFrame, captured, epoch >>

\* the names CameraService.from_settings registered, and the names a
\* request may carry
Sources == {"front"}
Names == {"front", "attic"}

KeyError == "KeyError"

\* a lookup that hands out the front camera for every name
GetStream_Any(name) == "front"

\* CameraService._get: raise KeyError if name not in self._streams
GetStream(name) == IF name \in Sources THEN name ELSE KeyError

\* the KeyError leaves the service method before it has called the stream
RaiseKeyError(t) ==
    /\ pc[t] = "idle"
    /\ loc' = [loc EXCEPT ![t].res = KeyError]
    /\ UNCHANGED << pc, storeVars, lq, speechVars, clientVars, clock, ops, camVars >>

\* CameraService.ensure_started(name): stream = self._get(name); stream.start()
EnsureStarted(t, name) ==
    IF GetStream(name) = KeyError THEN RaiseKeyError(t) ELSE CamStartCheck(t)

\* CameraService.stop(name): stream = self._get(name); stream.stop()
StopSource(t, name) ==
    IF GetStream(name) = KeyError THEN RaiseKeyError(t) ELSE CamStopClear(t)

\* CameraService.frame(name): stream = self._get(name); return stream.frame()
FrameOf(t, name) ==
    IF GetStream(name) = KeyError THEN RaiseKeyError(t) ELSE CamFrame(t)

LoopStep(l) ==
    \/ LoopOpen(l)
    \/ LoopConfigure(l)
    \/ LoopCheck(l)
    \/ LoopRead(l)
    \/ LoopReadFails(l)
    \/ StoreFrame(l)
    \/ LoopRelease(l)
    \/ LoopClearCapture(l)

----------------------------------------------------------------------------
(* Specification of the event bus: producers and one SSE client *)

BusThreads == Producers \cup Clients

BusPatches == { [toggles |-> Dict([a |-> TRUE])], [state |-> "talking"] }

InitStore ==
    /\ state = DEFAULT_STATE
    /\ file = JsonFile(DEFAULT_STATE)
    /\ history = << >>
    /\ listeners = {}
    /\ lock = NoThread
    /\ nextSeq = 1
    /\ log = << >>
    /\ applied = << >>
    /\ clock = 1
    /\ ops = 0

InitSpeechOff ==
    /\ queue = << >>
    /\ running = FALSE
    /\ active = NoTask
    /\ nextTask = 1
    /\ accepted = << >>

Init ==
    /\ InitStore
    /\ InitCamera
    /\ InitSpeechOff
    /\ pc = [t \in BusThreads |-> IF t \in Clients THEN "c_init" ELSE "idle"]
    /\ loc = [t \in BusThreads |-> NoLocals]
    /\ lq = [c \in Clients |-> << >>]
    /\ replayed = [c \in Clients |-> << >>]
    /\ live = [c \in Clients |-> << >>]
    /\ regAt = [c \in Clients |-> 0]
    /\ removedAt = [c \in Clients |-> 0]

StoreStep(t) ==
    \/ UpdBegin(t)
    \/ UpdCommit(t)
    \/ UpdCommitFail(t)
    \/ UpdReturn(t)
    \/ RecAppend(t)
    \/ RecCopy(t)
    \/ RecReturn(t)
    \/ BcastPut(t)
    \/ BcastReap(t)

Next ==
    \/ \E t \in Producers : StoreStep(t)
    \/ \E t \in Producers : \E p \in BusPatches : CallUpdate(t, p, MaxOps)
    \/ \E t \in Producers : CallRecord(t, "note", [note |-> "n"])
    \/ \E c \in Clients : ClientSubscribe(c)
    \/ \E c \in Clients : ClientReplay(c)
    \/ \E c \in Clients : ClientGet(c)

Spec == Init /\ [][Next]_vars

----------------------------------------------------------------------------
(* Specification of disconnection: one producer and one SSE client that    *)
(* may go away, under fair scheduling: a thread inside a call keeps        *)
(* running, nobody has to make a call                                      *)

NextDrop ==
    \/ StoreStep("p1")
    \/ \E p \in BusPatches : CallUpdate("p1", p, MaxOps)
    \/ CallRecord("p1", "note", [note |-> "n"])
    \/ \E c \in Clients : ClientSubscribe(c)
    \/ \E c \in Clients : ClientReplay(c)
    \/ \E c \in Clients : ClientGet(c)
    \/ \E c \in Clients : ClientDisconnect(c)
    \/ \E c \in Clients : ClientWake(c)
    \/ \E c \in Clients : ClientFinally(c)

SpecDropFair ==
    /\ Init
    /\ [][NextDrop]_vars
    /\ WF_vars(StoreStep("p1"))
    /\ \A c \in Clients :
          WF_vars(ClientSubscribe(c) \/ ClientReplay(c) \/ ClientGet(c)
                    \/ ClientWake(c) \/ ClientFinally(c))

----------------------------------------------------------------------------
(* Specification of the fan-out: one producer and two SSE clients, one of  *)
(* which may read more slowly than the other                               *)

Siblings == {"c1", "c2"}

InitFan ==
    /\ InitStore
    /\ InitCamera
    /\ InitSpeechOff
    /\ pc = [t \in {"p1"} \cup Siblings |-> IF t \in Siblings THEN "c_init" ELSE "idle"]
    /\ loc = [t \in {"p1"} \cup Siblings |-> NoLocals]
    /\ lq = [c \in Siblings |-> << >>]
    /\ replayed = [c \in Siblings |-> << >>]
    /\ live = [c \in Siblings |-> << >>]
    /\ regAt = [c \in Siblings |-> 0]
    /\ removedAt = [c \in Siblings |-> 0]

NextFan ==
    \/ StoreStep("p1")
    \/ CallUpdate("p1", [state |-> "talking"], MaxOps)
    \/ CallRecord("p1", "note", [note |-> "n"])
    \/ \E c \in Siblings : ClientSubscribe(c)
    \/ \E c \in Siblings : ClientReplay(c)
    \/ \E c \in Siblings : ClientGet(c)

SpecFan == InitFan /\ [][NextFan]_vars

----------------------------------------------------------------------------
(* Specification of the state store: concurrent update and snapshot calls *)

StorePatches ==
    { [toggles |-> Dict([a |-> TRUE])],
      [toggles |-> Dict([b |-> TRUE])],
      [state |-> "talking"],
      [mood |-> "happy", toggles |-> Dict([a |-> FALSE])],
      [state |-> "idle", toggles |-> Null],
      [last_talk |-> 5],
      [last_talk |-> 0],
      EmptyMap }

InitNoClients ==
    /\ lq = [c \in {} |-> << >>]
    /\ replayed = [c \in {} |-> << >>]
    /\ live = [c \in {} |-> << >>]
    /\ regAt = [c \in {} |-> 0]
    /\ removedAt = [c \in {} |-> 0]

InitStoreOnly ==
    /\ InitStore
    /\ InitCamera
    /\ InitSpeechOff
    /\ InitNoClients
    /\ pc = [t \in Producers \cup Readers |-> "idle"]
    /\ loc = [t \in Producers \cup Readers |-> NoLocals]

NextStore ==
    \/ \E t \in Producers : \E p \in StorePatches : CallUpdate(t, p, MaxUpdates)
    \/ \E t \in Readers : Snapshot(t)
    \/ \E t \in Producers : UpdBegin(t)
    \/ \E t \in Producers : UpdCommit(t)
    \/ \E t \in Producers : UpdCommitFail(t)

SpecStore == InitStoreOnly /\ [][NextStore]_vars

----------------------------------------------------------------------------
(* Specification of start-up: one thread that constructs the StateService  *)
(* on whatever file it finds, updates the state and starts again           *)

InitBoot ==
    /\ state = DEFAULT_STATE
    /\ file \in StartFiles
    /\ history = << >>
    /\ listeners = {}
    /\ lock = NoThread
    /\ nextSeq = 1
    /\ log = << >>
    /\ applied = << >>
    /\ clock = 1
    /\ ops = 0
    /\ InitCamera
    /\ InitSpeechOff
    /\ InitNoClients
    /\ pc = [t \in {"p1"} |-> "boot"]
    /\ loc = [t \in {"p1"} |-> NoLocals]

NextBoot ==
    \/ Construct("p1")
    \/ \E p \in StorePatches : CallUpdate("p1", p, MaxUpdates)
    \/ UpdBegin("p1")
    \/ UpdCommit("p1")
    \/ UpdCommitFail("p1")

SpecBoot == InitBoot /\ [][NextBoot]_vars

----------------------------------------------------------------------------
(* Specification of the toggles: one thread that constructs the            *)
(* StateService and sends patches whose "toggles" may be any JSON value    *)

TogglePatches ==
    { [toggles |-> Dict([a |-> TRUE])],
      [toggles |-> Dict([b |-> FALSE])],
      [toggles |-> Dict(EmptyMap)],
      [state |-> "talking", toggles |-> Null],
      [mood |-> "happy", toggles |-> JsonList],
      [state |-> "idle", toggles |-> Scalar] }

NextToggles ==
    \/ Construct("p1")
    \/ \E p \in TogglePatches : CallUpdate("p1", p, MaxUpdates)
    \/ UpdBegin("p1")
    \/ UpdCommit("p1")
    \/ UpdCommitFail("p1")

SpecToggles == InitBoot /\ [][NextToggles]_vars

----------------------------------------------------------------------------
(* Specification of the speech queue: one requester and the worker *)

SpeechThreads == {"e1", Worker}

InitQueue ==
    /\ queue = << >>
    /\ running = TRUE
    /\ active = NoTask
    /\ nextTask = 1
    /\ accepted = << >>

InitSpeech ==
    /\ InitStore
    /\ InitCamera
    /\ InitNoClients
    /\ InitQueue
    /\ pc = [t \in SpeechThreads |-> IF t = Worker THEN "w_check" ELSE "idle"]
    /\ loc = [t \in SpeechThreads |-> NoLocals]

WorkerStep ==
    \/ UpdBegin(Worker)
    \/ UpdCommit(Worker)
    \/ RecCopy(Worker)
    \/ WorkerCheck
    \/ WorkerGet
    \/ WorkerTimeout
    \/ WorkerActivate
    \/ WorkerStarted
    \/ WorkerSpoke
    \/ WorkerFinal
    \/ WorkerClear

NextSpeech ==
    \/ \E text \in Texts : Enqueue("e1", text, MaxTasks)
    \/ RecAppend("e1")
    \/ RecCopy("e1")
    \/ WorkerStep

SpecSpeech == InitSpeech /\ [][NextSpeech]_vars

\* the same under fair scheduling: the worker thread and a requester inside
\* record_event keep running; nobody has to call enqueue
SpecSpeechFair ==
    /\ InitSpeech
    /\ [][NextSpeech]_vars
    /\ WF_vars(WorkerStep)
    /\ WF_vars(RecAppend("e1") \/ RecCopy("e1"))

----------------------------------------------------------------------------
(* Specification of polling: one requester, the worker and a thread that   *)
(* calls status() again and again                                          *)

StatusThreads == {"e1", Worker, Poller}

InitStatus ==
    /\ InitStore
    /\ InitCamera
    /\ InitNoClients
    /\ InitQueue
    /\ pc = [t \in StatusThreads |-> IF t = Worker THEN "w_check" ELSE "idle"]
    /\ loc = [t \in StatusThreads |-> NoLocals]

NextStatus ==
    \/ Enqueue("e1", " a ", MaxPolled)
    \/ RecAppend("e1")
    \/ RecCopy("e1")
    \/ WorkerStep
    \/ StatusActive
    \/ StatusPending

SpecStatus == InitStatus /\ [][NextStatus]_vars

----------------------------------------------------------------------------
(* Specification of echo_voice.main: one thread that enqueues and then     *)
(* polls status(), and the worker                                          *)

MainThreads == {Poller, Worker}

InitMain ==
    /\ InitStore
    /\ InitCamera
    /\ InitNoClients
    /\ InitQueue
    /\ pc = [t \in MainThreads |-> IF t = Worker THEN "w_check" ELSE "idle"]
    /\ loc = [t \in MainThreads |-> NoLocals]

NextMain ==
    \/ Enqueue(Poller, " a ", MaxPolled)
    \/ RecAppend(Poller)
    \/ RecCopy(Poller)
    \/ WorkerStep
    \/ StatusActive
    \/ StatusPending

SpecMain == InitMain /\ [][NextMain]_vars

----------------------------------------------------------------------------
(* Specification of failing synthesis: one requester and the worker, whose *)
(* synthesis or playback may raise                                         *)

NextFail ==
    \/ Enqueue("e1", " a ", MaxFail)
    \/ RecAppend("e1")
    \/ RecCopy("e1")
    \/ WorkerStep
    \/ WorkerFailed

SpecFail == InitSpeech /\ [][NextFail]_vars

\* the same under fair scheduling: the worker thread keeps running, its
\* synthesis and playback end, by returning or by raising, and a requester
\* inside record_event keeps running; nobody has to call enqueue
SpecFailFair ==
    /\ InitSpeech
    /\ [][NextFail]_vars
    /\ WF_vars(WorkerStep \/ WorkerFailed)
    /\ WF_vars(RecAppend("e1") \/ RecCopy("e1"))

----------------------------------------------------------------------------
(* Specification of a failing disk: one requester and the worker, whose    *)
(* update calls may fail to write the state file                           *)

NextDisk ==
    \/ Enqueue("e1", " a ", MaxFail)
    \/ RecAppend("e1")
    \/ RecCopy("e1")
    \/ WorkerStep
    \/ UpdCommitFail(Worker)
    \/ WorkerDies

SpecDisk == InitSpeech /\ [][NextDisk]_vars

----------------------------------------------------------------------------
(* Specification of shutdown: one requester, the worker and stop() *)

StopThreads == {"e1", Worker, Stopper}

InitStop ==
    /\ InitStore
    /\ InitCamera
    /\ InitNoClients
    /\ InitQueue
    /\ pc = [t \in StopThreads |-> IF t = Worker THEN "w_check" ELSE "idle"]
    /\ loc = [t \in StopThreads |-> NoLocals]

NextStop ==
    \/ Enqueue("e1", " a ", MaxTasks)
    \/ RecAppend("e1")
    \/ RecCopy("e1")
    \/ WorkerStep
    \/ StopClear
    \/ StopPut

SpecStop == InitStop /\ [][NextStop]_vars

\* shutdown with fewer enqueue calls
NextHalt ==
    \/ Enqueue("e1", " a ", MaxHalt)
    \/ RecAppend("e1")
    \/ RecCopy("e1")
    \/ WorkerStep
    \/ StopClear
    \/ StopPut

\* shutdown under fair scheduling: the worker thread, a requester inside
\* record_event and a stop() call that has begun keep running
SpecStopFair ==
    /\ InitStop
    /\ [][NextHalt]_vars
    /\ WF_vars(WorkerStep)
    /\ WF_vars(RecAppend("e1") \/ RecCopy("e1"))
    /\ WF_vars(StopPut)

----------------------------------------------------------------------------
(* Specification of concurrent enqueue calls: two requesters and the worker *)

RaceThreads == Requesters \cup {Worker}

InitRace ==
    /\ InitStore
    /\ InitCamera
    /\ InitNoClients
    /\ InitQueue
    /\ pc = [t \in RaceThreads |-> IF t = Worker THEN "w_check" ELSE "idle"]
    /\ loc = [t \in RaceThreads |-> NoLocals]

NextRace ==
    \/ \E t \in Requesters : Enqueue(t, " a ", MaxRace)
    \/ \E t \in Requesters : RecAppend(t)
    \/ \E t \in Requesters : RecCopy(t)
    \/ WorkerStep

SpecRace == InitRace /\ [][NextRace]_vars

----------------------------------------------------------------------------
(* Specification of the camera: two callers of one source and its loops *)

CameraThreads == CamCallers \cup Loops

InitCam ==
    /\ InitStore
    /\ InitCamera
    /\ InitSpeechOff
    /\ InitNoClients
    /\ pc = [t \in CameraThreads |-> IF t \in Loops THEN "l_unborn" ELSE "idle"]
    /\ loc = [t \in CameraThreads |-> NoLocals]

NextCam ==
    \/ \E t \in CamCallers : CamStartCheck(t)
    \/ \E t \in CamCallers : CamStartSet(t)
    \/ \E t \in CamCallers : CamStartSpawn(t)
    \/ \E t \in CamCallers : CamStopClear(t)
    \/ \E t \in CamCallers : CamStopJoin(t)
    \/ \E t \in CamCallers : CamStopRelease(t)
    \/ \E t \in CamCallers : CamStopClearCapture(t)
    \/ \E t \in CamCallers : CamFrame(t)
    \/ \E l \in Loops : LoopStep(l)

SpecCam == InitCam /\ [][NextCam]_vars

----------------------------------------------------------------------------
(* Specification of the camera service: one caller that names the source *)

NextNames ==
    \/ \E name \in Names : EnsureStarted("k1", name)
    \/ \E name \in Names : StopSource("k1", name)
    \/ \E name \in Names : FrameOf("k1", name)
    \/ CamStartSet("k1")
    \/ CamStartSpawn("k1")
    \/ CamStopJoin("k1")
    \/ CamStopRelease("k1")
    \/ CamStopClearCapture("k1")
    \/ \E l \in Loops : LoopStep(l)

SpecNames == InitCam /\ [][NextNames]_vars

----------------------------------------------------------------------------
(* Properties of the state store *)

\* C3: updates are atomic and none is lost: the state always equals the
\* patches assigned so far applied one after the other, every snapshot()
\* result is the state after some number of whole patches, and every update
\* that has returned (or raised) is among the applied patches.
UpdatesAreAtomic ==
    /\ state = StateAfter(Len(applied))
    /\ \A t \in DOMAIN pc :
          loc[t].res = "snapshot" =>
              \E k \in 0..Len(applied) : loc[t].rv = StateAfter(k)
    /\ \A t \in DOMAIN pc :
          (pc[t] = "idle" /\ loc[t].res = "ok") => loc[t].rv \in {StateAfter(k) : k \in 1..Len(applied)}
    /\ Quiescent => Len(applied) = ops

UpdatesAreAtomicWitness ==
    /\ Quiescent
    /\ Len(applied) = 2
    /\ applied[1].patch = [toggles |-> Dict([a |-> TRUE])]
    /\ applied[2].patch = [toggles |-> Dict([b |-> TRUE])]
    /\ \E t \in DOMAIN pc : loc[t].res = "snapshot" /\ loc[t].rv = StateAfter(1)
                              /\ loc[t].rv # state

\* the value the claim gives key k after update(patch) on state prev: the
\* patch's value, the key-wise merge for a mapping-valued toggles, else the
\* previous value
PatchedKey(prev, patch, k) ==
    IF k = "toggles" /\ k \in DOMAIN patch /\ patch[k].kind = "dict"
    THEN [j \in (DOMAIN prev[k]) \cup (DOMAIN patch[k].map) |->
            IF j \in DOMAIN patch[k].map THEN patch[k].map[j] ELSE prev[k][j]]
    ELSE IF k \in DOMAIN patch THEN patch[k] ELSE prev[k]

Patched(prev, patch) ==
    [k \in (DOMAIN prev) \cup (DOMAIN patch) |-> PatchedKey(prev, patch, k)]

\* the same, with the two exceptions the code makes: a toggles value that
\* is not a mapping is ignored, and last_talk is stamped with the current
\* time when the resulting state is "talking" and last_talk is 0
PatchedAmended(prev, patch, now) ==
    LET usable == IF "toggles" \in DOMAIN patch /\ patch["toggles"].kind # "dict"
                  THEN [k \in (DOMAIN patch) \ {"toggles"} |-> patch[k]]
                  ELSE patch
        s == Patched(prev, usable)
    IN  IF s["state"] = "talking" /\ s["last_talk"] = 0
        THEN [k \in DOMAIN s |-> IF k = "last_talk" THEN now ELSE s[k]]
        ELSE s

\* the step of thread t that assigns self._state inside update
Assigns(t) == pc[t] = "upd_assign" /\ pc'[t] # "upd_assign"

\* the step of thread t that returns from update
Returns(t) ==
    /\ pc[t] \in {"upd_assign", "upd_bcast"}
    /\ pc'[t] \notin {"upd_assign", "upd_bcast"}
    /\ loc'[t].res = "ok"

\* C4 as claimed: every update leaves the previous state with the patch's
\* top-level keys overwritten and a mapping-valued toggles merged key by
\* key, every other key keeping its value, and returns that state.
UpdateMergesPatchOnly ==
    [][\A t \in DOMAIN pc :
          /\ Assigns(t) => state' = Patched(state, loc[t].patch)
          /\ Returns(t) => loc'[t].rv = state']_vars

\* C4 as amended: the same, except that a toggles value that is not a
\* mapping is ignored and that last_talk is stamped when the resulting state
\* is "talking" with no last_talk.
UpdateMergesPatch ==
    [][\A t \in DOMAIN pc :
          /\ Assigns(t) => state' = PatchedAmended(state, loc[t].patch, loc[t].now)
          /\ Returns(t) => loc'[t].rv = state']_vars

UpdateMergesPatchWitness ==
    /\ Quiescent
    /\ Len(applied) = 2
    /\ applied[1].patch = [toggles |-> Dict([a |-> TRUE])]
    /\ applied[2].patch = [toggles |-> Dict([b |-> TRUE])]
    /\ state["toggles"] = [a |-> TRUE, b |-> TRUE]
    /\ \E t \in DOMAIN pc : loc[t].res = "ok" /\ loc[t].rv = state

----------------------------------------------------------------------------
(* Properties of the event bus *)

\* the event with sequence number k has been appended but its broadcast has
\* not yet reached listener c
InFlightTo(k, c) ==
    \E t \in DOMAIN pc :
        /\ loc[t].ev.seq = k
        /\ \/ pc[t] = "rec_copy"
           \/ InBroadcast(t) /\ c \in loc[t].todo

\* some broadcast found the queue of c full and is about to remove c
Overflowing(c) == \E t \in DOMAIN pc : c \in Range(loc[t].dead)

\* what client c has been sent so far
Yielded(c) == Range(replayed[c]) \cup Range(live[c])

\* C1: an SSE client is never sent an event twice: no event yielded from
\* the history replay is also yielded from the client's live queue.
NoDuplicateDelivery ==
    \A c \in DOMAIN live : Range(live[c]) \cap Range(replayed[c]) = {}

\* C2: while its listener is registered and has not overflowed, every event
\* appended after the client registered has been yielded to it, waits in its
\* queue, or is still being broadcast to it: none is lost.
NoEventLost ==
    \A c \in DOMAIN live :
        (c \in listeners /\ ~Overflowing(c)) =>
            \A k \in (regAt[c] + 1)..(nextSeq - 1) :
                \/ k \in Yielded(c)
                \/ k \in Range(Seqs(lq[c]))
                \/ InFlightTo(k, c)

NoEventLostWitness ==
    \E c \in DOMAIN live :
        /\ c \in listeners
        /\ pc[c] = "c_live"
        /\ lq[c] = << >>
        /\ Quiescent
        /\ \E k \in Range(live[c]) : k > regAt[c] /\ k \notin Range(replayed[c])
        /\ nextSeq - 1 > regAt[c] + 1

\* C5: a failed write of the state file aborts neither the mutation nor the
\* fan-out: the in-memory state holds every patch, and once no call is in
\* progress every update and record_event call has appended its event.
PersistFailureKeepsFanOut ==
    /\ state = StateAfter(Len(applied))
    /\ Quiescent => Len(log) = ops

\* C6: a full listener queue never blocks the broadcast nor fails the
\* producing call: the call returns normally with the listener removed, and
\* no event appended after the removal is ever enqueued to that listener.
OverflowRemovesListener ==
    /\ \A t \in DOMAIN pc :
          (InBroadcast(t) /\ loc[t].todo # {}) => ENABLED BcastPut(t)
    /\ \A t \in DOMAIN pc :
          (pc[t] = "idle" /\ loc[t].over # {}) =>
              /\ loc[t].res = "ok"
              /\ loc[t].over \cap listeners = {}
    /\ \A c \in DOMAIN removedAt :
          removedAt[c] # 0 =>
              /\ c \notin listeners
              /\ \A k \in Range(Seqs(lq[c])) \cup Range(live[c]) : k < removedAt[c]

OverflowRemovesListenerWitness ==
    \E t \in DOMAIN pc : \E c \in DOMAIN removedAt :
        /\ pc[t] = "idle"
        /\ c \in loc[t].over
        /\ loc[t].res = "ok"
        /\ removedAt[c] # 0
        /\ nextSeq > removedAt[c]

\* C7: the history holds at most HistorySize events, and they are exactly
\* the most recently appended ones, oldest first.
HistoryIsNewestSuffix ==
    LET n == Len(log)
        m == IF n < HistorySize THEN n ELSE HistorySize
    IN  /\ Len(history) <= HistorySize
        /\ history = SubSeq(log, n - m + 1, n)

HistoryIsNewestSuffixWitness ==
    /\ Len(log) > HistorySize
    /\ Len(history) = HistorySize
    /\ history[1].seq = Len(log) - HistorySize + 1

----------------------------------------------------------------------------
(* Properties of the speech queue *)

\* the ids of the tasks waiting in the queue
QueuedIds == { task.id : task \in Range(PendingSnapshot(queue)) }

\* the ids of the speech events of the given status, in the order recorded
EventIds(status) ==
    LET sel == SelectSeq(log, LAMBDA e : e.type = "speech" /\ e.data.status = status)
    IN  [i \in 1..Len(sel) |-> sel[i].data.id]

\* the step in which requester t calls enqueue with a text that is not
\* blank while the queue holds SpeechQueueMax tasks
EnqueuesOnFull(t) ==
    /\ pc[t] = "idle"
    /\ nextTask' # nextTask
    /\ Len(queue) >= SpeechQueueMax

\* C8: enqueue on a queue that holds SpeechQueueMax tasks returns in the
\* same step with RuntimeError, which is not the ValueError of a blank text;
\* the queue and the history are unchanged, the task is not accepted, and
\* no "queued" event is ever recorded for a task that was not accepted.
FullQueueRejects ==
    [][/\ EnqueuesOnFull("e1") =>
            /\ pc'["e1"] = "idle"
            /\ loc'["e1"].res = "RuntimeError"
            /\ loc'["e1"].res # "ValueError"
            /\ queue' = queue
            /\ accepted' = accepted
            /\ history' = history
            /\ log' = log
       /\ Range(EventIds("queued"))' \subseteq Range(accepted')]_vars

FullQueueRejectsWitness ==
    /\ pc["e1"] = "idle"
    /\ loc["e1"].res = "RuntimeError"
    /\ Len(PendingSnapshot(queue)) = SpeechQueueMax
    /\ nextTask - 1 > Len(accepted)
    /\ Len(EventIds("queued")) = Len(accepted)

\* the tasks the worker has taken from the queue and not finished
InHand == { id \in Range(accepted) :
              /\ id \notin QueuedIds
              /\ id \notin Range(EventIds("completed")) }

\* C9: the queue never holds more than SpeechQueueMax entries, so never
\* more than SpeechQueueMax pending tasks, and besides them at most one
\* task is in the worker's hands, which is the active one once it is set.
PendingWithinCapacity ==
    /\ Len(queue) <= SpeechQueueMax
    /\ Len(PendingSnapshot(queue)) <= SpeechQueueMax
    /\ Cardinality(InHand) <= 1
    /\ active # NoTask => active.id \notin QueuedIds

PendingWithinCapacityWitness ==
    /\ Len(PendingSnapshot(queue)) = SpeechQueueMax
    /\ active # NoTask
    /\ InHand = {active.id}
    /\ pc[Stopper] = "stopped"

\* C10: the "started" events are recorded in the order in which the tasks
\* were put into the queue: the started tasks are a prefix of the accepted
\* ones.
StartedInAcceptedOrder ==
    LET started == EventIds("started")
    IN  /\ Len(started) <= Len(accepted)
        /\ \A i \in 1..Len(started) : started[i] = accepted[i]

StartedInAcceptedOrderWitness ==
    /\ Len(EventIds("started")) = 2
    /\ \E t \in Requesters : pc[t] = "rec_append"

\* the ids of the tasks that have a "completed" or "failed" event
TerminalIds == Range(EventIds("completed")) \cup Range(EventIds("failed"))

\* the tasks between their "started" event and their terminal event
Speaking == Range(EventIds("started")) \ TerminalIds

\* C11: at no moment are two tasks between their "started" event and their
\* "completed" or "failed" event: a task is started only after the task
\* started before it has its terminal event.
OneTaskSpeaking == Cardinality(Speaking) <= 1

OneTaskSpeakingWitness ==
    /\ Len(EventIds("started")) = 2
    /\ Len(EventIds("failed")) = 1
    /\ Cardinality(Speaking) = 1

\* the statuses of the speech events of task id, in the order recorded
StatusesOf(id) ==
    LET sel == SelectSeq(log, LAMBDA e : e.type = "speech" /\ e.data.id = id)
    IN  [i \in 1..Len(sel) |-> sel[i].data.status]

IsPrefix(p, q) == Len(p) <= Len(q) /\ \A i \in 1..Len(p) : p[i] = q[i]

\* C12: the speech events of every accepted task are recorded in the order
\* queued, started, then one of completed or failed, none skipped or
\* repeated; the "queued" event comes before the "started" event.
TaskLifecycleOrder ==
    \A id \in Range(accepted) :
        \/ IsPrefix(StatusesOf(id), << "queued", "started", "completed" >>)
        \/ IsPrefix(StatusesOf(id), << "queued", "started", "failed" >>)

\* some task other than the sentinel waits in the queue
HasPending == \E i \in 1..Len(queue) : queue[i].id # "__quit__"

\* the step in which the worker, having recorded the terminal event of a
\* task, looks at the queue and chooses the patch of its last update
ChoosesFinalPatch == pc[Worker] = "w_final" /\ pc'[Worker] # "w_final"

\* the step in which that last update assigns the state
AssignsFinalPatch ==
    /\ pc[Worker] = "upd_assign"
    /\ loc[Worker].ret = "w_clear"
    /\ pc'[Worker] # "upd_assign"

\* C13: RobotState.state is "talking" whenever a task is between its
\* "started" and its terminal event, and the update the worker makes after
\* a task has finished while other tasks are pending sets "talking" too.
TalkingWhileActive ==
    [][/\ Speaking' # {} => state'["state"] = "talking"
       /\ (ChoosesFinalPatch /\ HasPending) =>
              loc'[Worker].patch["state"] = "talking"
       /\ AssignsFinalPatch => state'["state"] = loc[Worker].patch["state"]]_vars

TalkingWhileActiveWitness ==
    /\ pc[Worker] = "w_clear"
    /\ HasPending
    /\ Speaking = {}
    /\ TerminalIds # {}
    /\ state["state"] = "talking"

\* a text that is empty or holds only white space
Blank(text) == text \in {"", " ", "  "}

\* the step in which enqueue raises ValueError
RaisesValueError ==
    /\ pc["e1"] = "idle"
    /\ loc["e1"].res # "ValueError"
    /\ loc'["e1"].res = "ValueError"

\* C15: enqueue with a blank text raises ValueError and leaves the queue,
\* the history, the listener queues, RobotState and its file unchanged; no
\* task with a blank text is ever in the queue or in a speech event.
BlankTextRejected ==
    [][/\ RaisesValueError =>
            /\ pc'["e1"] = "idle"
            /\ UNCHANGED << queue, accepted, nextTask, history, log, lq, listeners,
                            state, file, active >>
       /\ \A i \in 1..Len(queue') : ~Blank(queue'[i].text)
       /\ \A i \in 1..Len(log') :
              log'[i].type = "speech" => ~Blank(log'[i].data.text)]_vars

BlankTextRejectedWitness ==
    /\ loc["e1"].res = "ValueError"
    /\ accepted # << >>
    /\ HasPending

\* what status() reports when nothing is active or pending, with the state
\* back to "idle"
AtRest ==
    /\ active = NoTask
    /\ PendingSnapshot(queue) = << >>
    /\ state["state"] = "idle"

WorkerEnded == pc[Worker] \in {"w_exit", "w_dead"}

\* the sentinel is not handled as a task: it is never the active task and
\* no event carries its id
SentinelIgnored ==
    /\ active.id # "__quit__"
    /\ loc[Worker].task.id # "__quit__"
    /\ \A i \in 1..Len(log) :
          log[i].type = "speech" => log[i].data.id # "__quit__"
    /\ Len(SelectSeq(log, LAMBDA e : e.type = "state"))
          <= 2 * Cardinality(Range(accepted) \ QueuedIds)

\* C17: once stop() has cleared the flag the worker loop eventually ends,
\* whether the worker waits on the empty queue, handles a task, or the
\* sentinel found the queue full; the sentinel is never handled as a task.
StopEndsWorker ==
    /\ (~running) ~> WorkerEnded
    /\ []SentinelIgnored

StopEndsWorkerWitness ==
    /\ WorkerEnded
    /\ pc[Stopper] = "stopped"
    /\ Len(PendingSnapshot(queue)) = SpeechQueueMax
    /\ Len(queue) = SpeechQueueMax

\* the ids of a sequence of tasks
Ids(tasks) == [i \in 1..Len(tasks) |-> tasks[i].id]

\* the step in which status() returns
StatusReturns == pc[Poller] = "st_pending" /\ pc'[Poller] = "idle"

\* C16: status() and the worker's look at the pending tasks leave the queue
\* as it is; status() reports the pending tasks in queue order, which is the
\* order they were accepted in, and the worker starts the tasks in that order
\* whatever status() calls are made.
StatusOnlyReads ==
    [][/\ pc'[Poller] # pc[Poller] => UNCHANGED << queue, active, accepted >>
       /\ ChoosesFinalPatch => UNCHANGED << queue, active, accepted >>
       /\ StatusReturns =>
              /\ loc'[Poller].pending = queue
              /\ Ids(loc'[Poller].pending) =
                     SelectSeq(accepted, LAMBDA id : id \in QueuedIds)
       /\ IsPrefix(EventIds("started")', accepted')]_vars

StatusOnlyReadsWitness ==
    /\ pc[Poller] = "idle"
    /\ Len(loc[Poller].pending) = 2
    /\ queue = << >>
    /\ Len(EventIds("started")) = 2

----------------------------------------------------------------------------
(* Properties of the camera *)

\* the loop threads that are inside _loop with the capture still to release
InLoop == { l \in Loops : pc[l] \in {"l_open", "l_config", "l_check",
                                       "l_read", "l_store"} }

\* C18: at most one producer loop of the source is running at any time,
\* whatever the interleaving of ensure_started calls and whatever stop /
\* ensure_started sequence is made, a stop() with a timed-out join included.
AtMostOneLoop == Cardinality(InLoop) <= 1

\* the frames a caller has been handed by frame()
Served == { t \in CamCallers : loc[t].res = "frame" }

\* the most recent successful capture, none before the first one
LatestCapture == IF captured = << >> THEN NoFrame ELSE captured[Len(captured)]

\* the capture before the most recent one
PreviousCapture ==
    IF Len(captured) < 2 THEN NoFrame ELSE captured[Len(captured) - 1]

\* C19: the frame slot holds none until the first successful capture and
\* afterwards the whole of the most recent successful capture: while a loop
\* is about to write the capture it has just made the slot holds the
\* previous one, otherwise the latest one; what frame() hands out is none or
\* one whole capture.
FrameIsLatestCapture ==
    /\ captured = << >> => lastFrame = NoFrame
    /\ lastFrame \in {LatestCapture, PreviousCapture}
    /\ (\A l \in Loops : pc[l] # "l_store") => lastFrame = LatestCapture
    /\ \A t \in Served : loc[t].frame \in Range(captured) \cup {NoFrame}

\* C20: a frame handed out by frame() is none or a capture of the current
\* run: it was captured after the last stop() that had returned when frame()
\* was called.
NoFrameOfPreviousRun ==
    \A t \in Served : loc[t].frame = NoFrame \/ loc[t].frame.epoch = loc[t].now

\* the loops that have opened a capture
Opened == { l \in Loops : pc[l] \notin {"l_unborn", "l_open"} }

\* the flag is clear, no call is in progress and no loop thread is alive
CameraAtRest ==
    /\ ~camRunning
    /\ \A t \in CamCallers : pc[t] = "idle"
    /\ \A l \in Loops : ~IsAlive(l)

\* C21: once stop() has returned and the loops have ended, with the flag
\* still clear, the capture handle is cleared and every capture the loops
\* opened has been released; a source that was never started is at rest
\* with nothing to release.
StoppedCameraIsReleased ==
    CameraAtRest => capture = NoCapture /\ Opened \subseteq released

\* a call of a CameraService method with this name by this caller
CallsWith(t, name) ==
    \/ EnsureStarted(t, name)
    \/ StopSource(t, name)
    \/ FrameOf(t, name)

\* C22: ensure_started, stop and frame called with a name that is not
\* registered raise KeyError and change nothing: no thread is started or
\* moved, and the flag, the thread, the capture and the frame slot of the
\* registered source are as before.
UnknownNameChangesNothing ==
    [][\A t \in CamCallers : \A name \in Names \ Sources :
          CallsWith(t, name) =>
              /\ loc'[t].res = KeyError
              /\ pc' = pc
              /\ UNCHANGED camVars]_vars

UnknownNameChangesNothingWitness ==
    /\ \E t \in CamCallers : loc[t].res = KeyError
    /\ camRunning
    /\ capture # NoCapture
    /\ lastFrame # NoFrame

----------------------------------------------------------------------------
(* Properties of the lock *)

\* a step of the SSE handler of a client
ClientStep(c) ==
    \/ ClientSubscribe(c)
    \/ ClientReplay(c)
    \/ ClientGet(c)

\* the thread is inside update or record_event
Busy(t) == pc[t] # "idle"

\* the thread can take its next step now
Runnable(t) ==
    IF t \in Clients THEN ENABLED ClientStep(t) ELSE ENABLED StoreStep(t)

\* the thread's next step needs the lock and another thread holds it
WaitsForLock(t) == ~CanLock(t) /\ ~Runnable(t)

\* C23: no thread waits for ever for a lock: a thread inside update or
\* record_event can take its next step, or it waits for the lock and the
\* thread that holds the lock can take its next step; a producer never waits
\* for an SSE consumer, whatever the consumer has taken from its queue.  The
\* only thread that waits for something else is the SSE handler on its empty
\* queue.
NoDeadlock ==
    /\ \A t \in Producers :
          Busy(t) => Runnable(t) \/ (WaitsForLock(t) /\ Runnable(lock))
    /\ \A c \in Clients :
          \/ Runnable(c)
          \/ WaitsForLock(c) /\ Runnable(lock)
          \/ pc[c] = "c_live" /\ lq[c] = << >>

\* update is sending to a listener whose queue is full and has to remove it
\* while it holds the lock, and another thread waits for the lock
NoDeadlockWitness ==
    /\ \E t \in Producers :
          /\ pc[t] = "upd_bcast"
          /\ lock = t
          /\ loc[t].dead # << >>
    /\ \E u \in Producers : Busy(u) /\ WaitsForLock(u)

----------------------------------------------------------------------------
(* Properties of persistence *)

\* the file is a complete JSON document of this state
FileHolds(f, s) == f.kind = "json" /\ f.content = s

\* every assignment to self._state was followed by a write that succeeded
NoWriteFailed ==
    Len(applied) = Len(SelectSeq(log, LAMBDA e : e.type = "state"))

\* C24: with no write failure, an update that returns leaves in the state
\* file exactly the state it returns, and whenever no update holds the lock
\* the file holds the in-memory state, so never the state of an earlier
\* update.
PersistedSynchronously ==
    [][NoWriteFailed' =>
          /\ \A t \in Producers : Returns(t) => FileHolds(file', loc'[t].rv)
          /\ lock' = NoThread => FileHolds(file', state')]_vars

PersistedSynchronouslyWitness ==
    /\ NoWriteFailed
    /\ Len(applied) = MaxUpdates
    /\ lock = NoThread
    /\ \A t \in Producers : loc[t].res = "ok"
    /\ FileHolds(file, state)
    /\ \E t \in Producers : loc[t].rv # state
    /\ state # DEFAULT_STATE

\* the `state` events that are still in the history
StateEvents == SelectSeq(history, LAMBDA e : e.type = "state")

\* C25: every update that returns has appended one `state` event whose data
\* is the snapshot it returns; hence whenever no update holds the lock and
\* a `state` event is still in the history, the data of the newest `state`
\* event is the in-memory state, which is what snapshot() returns.
NewestStateEventIsSnapshot ==
    (lock = NoThread /\ StateEvents # << >>) =>
        StateEvents[Len(StateEvents)].data = state

\* the thread is inside record_event
InRecord(t) == pc[t] \in {"rec_append", "rec_copy", "rec_bcast"}

\* the thread takes this step
Steps(t) == pc'[t] # pc[t] \/ loc'[t] # loc[t]

\* C26: a record_event call appends exactly one event, with the type and
\* payload it was given, to the history, hands that event to listener
\* queues only, and leaves the state and the state file as they are; it
\* emits no `state` event.
RecordOnlyAppends ==
    [][\A t \in Producers : (InRecord(t) /\ Steps(t)) =>
          /\ UNCHANGED << state, file, applied >>
          /\ IF pc[t] = "rec_append"
             THEN /\ Len(log') = Len(log) + 1
                  /\ log'[Len(log')].type = loc[t].ev.type
                  /\ log'[Len(log')].data = loc[t].ev.data
                  /\ history' = DequeAppend(history, log'[Len(log')], HistorySize)
                  /\ loc'[t].ev = log'[Len(log')]
             ELSE UNCHANGED << history, log >>
          /\ \A c \in Clients :
                lq'[c] # lq[c] => lq'[c] = Append(lq[c], loc[t].ev)]_vars

RecordOnlyAppendsWitness ==
    /\ state # DEFAULT_STATE
    /\ \E t \in Producers :
          /\ pc[t] = "idle"
          /\ loc[t].res = "ok"
          /\ \E i \in 1..Len(history) :
                /\ history[i].type = "note"
                /\ \E c \in Clients : history[i].seq \in Range(live[c])

----------------------------------------------------------------------------
(* Properties of last_talk *)

\* the patch supplies a last_talk
Supplies(patch) == "last_talk" \in DOMAIN patch

\* last_talk once the patch is merged and before it is stamped
MergedTalk(prev, patch) ==
    IF Supplies(patch) THEN patch["last_talk"] ELSE prev["last_talk"]

\* C27: update stamps last_talk with the current time exactly when the
\* resulting state is "talking" and no last_talk is present: a talking state
\* always has a last_talk, a last_talk that is present is kept unless the
\* patch supplies one, and an update to a state that is not talking leaves
\* last_talk alone unless the patch supplies it.
StampsLastTalk ==
    [][\A t \in Producers : Assigns(t) =>
          LET patch == loc[t].patch
              merged == MergedTalk(state, patch)
              stamps == state'["state"] = "talking" /\ merged = 0
          IN  /\ state'["last_talk"] = IF stamps THEN loc[t].now ELSE merged
              /\ state'["state"] = "talking" => state'["last_talk"] # 0
              /\ (state["last_talk"] # 0 /\ ~Supplies(patch)) =>
                     state'["last_talk"] = state["last_talk"]
              /\ (state'["state"] # "talking" /\ ~Supplies(patch)) =>
                     state'["last_talk"] = state["last_talk"]]_vars

\* a state that had a last_talk from a patch has become talking and kept it
StampsLastTalkWitness ==
    /\ Len(applied) = 2
    /\ Supplies(applied[1].patch)
    /\ ~Supplies(applied[2].patch)
    /\ state["state"] = "talking"
    /\ state["last_talk"] # 0
    /\ state["last_talk"] # applied[2].now

----------------------------------------------------------------------------
(* Properties of disconnection *)

\* the client of this handler has gone away
Disconnected(c) == pc[c] \in {"c_lost", "c_gone", "c_finally", "c_closed"}

\* C28: once an SSE client has disconnected its listener is eventually
\* removed from the registry, also when no event is broadcast any more and
\* when the generator was never started.
ListenerRemovedOnDisconnect ==
    \A c \in Clients : Disconnected(c) ~> (c \notin listeners)

----------------------------------------------------------------------------
(* Properties of start-up *)

\* the step in which the thread constructs a StateService
Constructs(t) == pc[t] \in {"boot", "idle"} /\ pc'[t] \in {"idle", "crashed"}

\* the file is there and is not a JSON document
NotJson(f) == f.kind \in {"text", "partial", "bytes"}

\* C29: a StateService constructed on the file a previous instance left
\* after its last update returned has that instance's final state; one
\* constructed with no file, or with a file that is not valid JSON, has the
\* default state and has written the default state to the file.
CreatedFromDiskOrDefault ==
    [][\A t \in {"p1"} : Constructs(t) =>
          /\ (file.kind = "json" /\ file.content = state) =>
                 state' = state /\ pc'[t] = "idle"
          /\ (file.kind = "missing" \/ NotJson(file)) =>
                 /\ pc'[t] = "idle"
                 /\ state' = DEFAULT_STATE
                 /\ file'.kind = "json"
                 /\ file'.content = DEFAULT_STATE]_vars

----------------------------------------------------------------------------
(* Properties of the fan-out *)

\* C30: no thread puts an event into a listener queue while it holds the
\* lock: a thread that is inside _broadcast, for an event of update or of
\* record_event, does not own the lock.
BroadcastOutsideLock ==
    \A t \in Producers : InBroadcast(t) => lock # t

\* how many times the event with this sequence number has been put into the
\* queue of the listener: taken from it already, or still waiting in it
Deliveries(k, c) ==
    LET got == live[c] \o Seqs(lq[c])
    IN  Cardinality({ i \in 1..Len(got) : got[i] = k })

\* the listener was registered when the event was appended and no broadcast
\* has found its queue full
Healthy(c) == c \in listeners /\ removedAt[c] = 0 /\ ~Overflowing(c)

\* C31: one dead listener never interrupts its siblings: a broadcast that
\* finds the queue of a listener full still puts its event, exactly once,
\* into the queue of every other registered listener that has room, and the
\* only listeners it removes are those whose queue it found full.
DeadListenerIsolated ==
    /\ [](\A c \in Siblings : \A k \in 1..(nextSeq - 1) :
            /\ Deliveries(k, c) <= 1
            /\ (Healthy(c) /\ k > regAt[c] /\ ~InFlightTo(k, c)) =>
                   Deliveries(k, c) = 1)
    /\ [][\A t \in {"p1"} : (InBroadcast(t) /\ Steps(t)) =>
            /\ \A c \in Siblings :
                  /\ lq'[c] # lq[c] =>
                         /\ c \in loc[t].todo
                         /\ lq'[c] = Append(lq[c], loc[t].ev)
                  /\ (c \in loc[t].todo /\ c \notin loc'[t].todo) =>
                         IF QueueFull(lq[c], ListenerCap)
                         THEN c \in loc'[t].over /\ lq'[c] = lq[c]
                         ELSE c \notin Range(loc'[t].dead)
                                /\ lq'[c] = Append(lq[c], loc[t].ev)
            /\ listeners \ listeners' \subseteq loc[t].over
            /\ listeners' \subseteq listeners]_vars

\* the first listener was removed for its full queue and the second one has
\* been handed the event the first one had no room for
DeadListenerIsolatedWitness ==
    /\ pc["p1"] = "idle"
    /\ removedAt["c1"] # 0
    /\ "c1" \notin listeners
    /\ Healthy("c2")
    /\ regAt["c2"] < removedAt["c1"] - 1
    /\ Deliveries(removedAt["c1"] - 1, "c2") = 1
    /\ (removedAt["c1"] - 1) \notin Range(Seqs(lq["c1"])) \cup Range(live["c1"])

----------------------------------------------------------------------------
(* Properties of a failing task *)

\* the step in which synthesis and playback of the task in hand end
EndsSpeaking == pc[Worker] = "w_synth" /\ pc'[Worker] # "w_synth"

\* the task in the worker's hands has a "failed" event
HandlesFailed == loc[Worker].task.id \in Range(EventIds("failed"))

\* what the steps of the worker do with a task that ends or has failed
FailureHandled ==
    /\ EndsSpeaking =>
           LET e == log'[Len(log')]
           IN  /\ Len(log') = Len(log) + 1
               /\ e.type = "speech"
               /\ e.data.id = loc[Worker].task.id
               /\ e.data.text = loc[Worker].task.text
               /\ e.data.status \in {"completed", "failed"}
               /\ (e.data.status = "failed" =>
                      "error" \in DOMAIN e.data /\ e.data.error = "exc")
    /\ (ChoosesFinalPatch /\ HandlesFailed) =>
           loc'[Worker].patch =
               IF HasPending THEN [state |-> "talking"]
               ELSE [state |-> "idle", last_talk |-> clock]
    /\ (pc[Worker] = "w_clear" /\ pc'[Worker] # "w_clear" /\ HandlesFailed) =>
           (active' = NoTask /\ pc'[Worker] = "w_check")
    /\ (pc[Worker] = "w_check" /\ pc'[Worker] # "w_check") =>
           pc'[Worker] = "w_get"
    /\ (pc[Worker] = "w_get" /\ pc'[Worker] = "w_active") =>
           (loc'[Worker].task = Head(queue) /\ queue' = Tail(queue))

WorkerSurvivesWriteFailure == pc[Worker] # "w_dead"

----------------------------------------------------------------------------
(* Properties of the order of delivery *)

\* the sequence numbers of the events put into the queue of the listener so
\* far, in the order they were put
PutOrder(c) == live[c] \o Seqs(lq[c])

\* C34: every listener receives the events in the order in which they were
\* appended to the history: the events put into its queue carry increasing
\* sequence numbers, whatever the interleaving of the update and
\* record_event calls.
DeliveredInAppendOrder ==
    \A c \in DOMAIN live :
        \A i, j \in 1..Len(PutOrder(c)) :
            i < j => PutOrder(c)[i] < PutOrder(c)[j]

----------------------------------------------------------------------------
(* Properties of status() *)

\* the task is the one status() reports as active
ReportedActive(id) == loc[Poller].task.id = id

\* the task is among those status() reports as pending
ReportedPending(id) == id \in Range(Ids(loc[Poller].pending))

\* C35: a task that was accepted before status() was called and has no
\* terminal event when status() returns is reported as the active task or
\* as a pending task, and not as both; so a status() with no active and no
\* pending task means that every task accepted before has been spoken.
AcceptedTaskIsReported ==
    [][StatusReturns =>
          \A id \in Range(accepted) :
              id \notin TerminalIds' =>
                  (ReportedActive(id)' # ReportedPending(id)')]_vars

----------------------------------------------------------------------------
(* Properties of progress *)

\* the i-th accepted task has been taken from the queue and has its
\* "completed" or "failed" event
Finished(i) ==
    /\ Len(accepted) >= i
    /\ accepted[i] \notin QueuedIds
    /\ accepted[i] \in TerminalIds

\* C36: under fair scheduling, with synthesis and playback that end, no
\* write failure and no stop(), every task accepted by enqueue is eventually
\* taken from the queue and eventually has a "completed" or "failed" event.
AcceptedTaskIsFinished ==
    \A i \in 1..MaxFail : (Len(accepted) >= i) ~> Finished(i)

\* every task a run can enqueue has been accepted and finished, one of them
\* by failing, and one of them after waiting in the queue behind another
AcceptedTaskIsFinishedWitness ==
    /\ \A i \in 1..MaxFail : Finished(i)
    /\ Range(EventIds("failed")) # {}
    /\ Range(EventIds("completed")) # {}
    /\ pc[Worker] = "w_get"
    /\ queue = << >>

----------------------------------------------------------------------------
(* Properties of shutdown *)

\* C37: the worker never leaves its loop with RobotState.state at
\* "talking": once stop() has been called and the worker loop has ended, the
\* state, which only the worker writes, is "idle", also when tasks were
\* still pending at the time of stop().
WorkerExitsIdle ==
    pc[Worker] = "w_exit" => state["state"] = "idle"

----------------------------------------------------------------------------
(* Properties of a removed listener *)

\* the handler of the client has left its loop and ended the stream
StreamEnded(c) == pc[c] \in {"c_finally", "c_closed"}

\* C38: an SSE handler whose listener was removed from the registry for
\* its full queue does not wait for ever while the connection stays open:
\* once it has yielded what its queue held it ends the stream (unless the
\* client goes away first).
RemovedListenerEndsStream ==
    \A c \in Clients :
        (removedAt[c] # 0 /\ ~Disconnected(c)) ~> (StreamEnded(c) \/ Disconnected(c))

----------------------------------------------------------------------------
(* Properties of the capture handle *)

\* the step in which the loop calls a method of self._capture: set() before
\* the loop, read() in it
UsesCapture(l) == pc[l] \in {"l_config", "l_read"} /\ pc'[l] # pc[l]

\* C39: the producer loop never uses a capture handle that has been
\* released or cleared: when it calls set() or read() on self._capture, the
\* handle is there and release() has not been called on it, whatever the
\* timing of the bounded join of stop().
LoopNeverUsesReleasedCapture ==
    [][\A l \in Loops :
          UsesCapture(l) => (capture # NoCapture /\ capture \notin released)]_vars

----------------------------------------------------------------------------
(* Properties of the toggles *)

\* the JSON values that are not mappings
NonMappings == {Null, JsonList, Scalar}

\* the patch has a "toggles" value that is not a mapping
BadToggles(patch) == "toggles" \in DOMAIN patch /\ patch["toggles"] \in NonMappings

\* what an update that assigns the state does to the toggles
TogglesKept(t) ==
    LET patch == loc[t].patch
    IN  /\ BadToggles(patch) =>
               /\ state'["toggles"] = state["toggles"]
               /\ \A k \in (DOMAIN patch) \ {"toggles", "last_talk"} :
                      k \in DOMAIN state' /\ state'[k] = patch[k]
        /\ DOMAIN state["toggles"] \subseteq DOMAIN state'["toggles"]
        /\ state'["toggles"] \notin NonMappings

\* C40: an update whose patch has a "toggles" value that is not a mapping
\* (null, a list, a scalar) leaves the toggles as they are and applies the
\* other keys of the patch; no update removes a key from the toggles or
\* puts a value that is not a mapping in their place.
BadTogglesIgnored ==
    [][\A t \in {"p1"} : Assigns(t) => TogglesKept(t)]_vars

\* a toggle set by one update has outlived an update whose toggles were a
\* list and that changed another key
BadTogglesIgnoredWitness ==
    /\ Len(applied) = 2
    /\ applied[1].patch = [toggles |-> Dict([a |-> TRUE])]
    /\ applied[2].patch = [mood |-> "happy", toggles |-> JsonList]
    /\ state["toggles"] = [a |-> TRUE]
    /\ state["mood"] = "happy"
    /\ pc["p1"] = "idle"

====
